---- MODULE Spec2Model ----
(***************************************************************************)
(* Model of the moderation service: the rule store, the raw caches, the    *)
(* two published matcher bundles behind their reader-writer locks, the     *)
(* administrative handlers that mutate the store and reload, and the       *)
(* moderate_comment decision procedure.                                    *)
(*                                                                         *)
(* Strings are sequences of one-character strings.  Rust indexes vectors   *)
(* from 0, the model from 1: pattern index p of the code is p + 1 here.    *)
(***************************************************************************)
EXTENDS Integers, Sequences, FiniteSets, TLC

\* Option<T>: None is the empty sequence, Some(v) the sequence holding v.
None == <<>>
Some(v) == <<v>>
Unwrap(o) == o[1]

(***************************************************************************)
(* Bounds of the model.                                                    *)
(***************************************************************************)
\* Number of administrative handler calls that may be started in one run.
MaxCalls == 2

(***************************************************************************)
(* Library limits, scaled to the size of the model.  AhoCorasick::new and  *)
(* RegexSet::new return Err when the compiled object exceeds the library's *)
(* size limit; the code turns that Err into a panic with expect().         *)
(***************************************************************************)
\* Largest total pattern length AhoCorasick::new accepts.
AcStateLimit == 5
\* Largest total pattern length RegexSet::new accepts.
RegexSetSizeLimit == 3

\* garde length(min = 2, max = 64) of BadWordCreate.word; the model has no
\* word longer than the maximum.
WordMinLen == 2

(***************************************************************************)
(* Strings.                                                                *)
(***************************************************************************)
ToLowerChar(c) ==
    CASE c = "A" -> "a"
      [] c = "B" -> "b"
      [] c = "C" -> "c"
      [] OTHER -> c

\* str::to_lowercase
to_lowercase(s) == [i \in 1..Len(s) |-> ToLowerChar(s[i])]

\* The last k characters of s.
Suffix(s, k) == SubSeq(s, Len(s) - k + 1, Len(s))

SetMax(S) == CHOOSE m \in S : \A n \in S : n <= m
SetMin(S) == CHOOSE m \in S : \A n \in S : m <= n

RECURSIVE SumLen(_)
SumLen(ps) == IF ps = <<>> THEN 0 ELSE Len(Head(ps)) + SumLen(Tail(ps))

(***************************************************************************)
(* The Aho-Corasick automaton built by AhoCorasick::new(patterns) with the *)
(* default MatchKind::Standard.  A state is the longest suffix of the text *)
(* read so far that is a prefix of some pattern (a node of the trie); the  *)
(* match list of a state holds the patterns equal to the state's own       *)
(* string in insertion order, followed by the match list of its failure    *)
(* state.  find() stops at the first state whose match list is not empty   *)
(* and reports the first pattern of that list.                             *)
(***************************************************************************)
AcTrie(patterns) ==
    UNION {{SubSeq(patterns[i], 1, k) : k \in 0..Len(patterns[i])} :
              i \in 1..Len(patterns)}

\* The transition of the automaton, failure links followed.
AcStep(patterns, state, c) ==
    LET s == Append(state, c)
        ks == {k \in 0..Len(s) : Suffix(s, k) \in AcTrie(patterns)}
    IN  Suffix(s, SetMax(ks))

\* A match list that holds the patterns of equal string in reverse order.
AcFirstMatch_LastInserted(patterns, state) ==
    LET ks == {k \in 1..Len(state) :
                  \E i \in 1..Len(patterns) : patterns[i] = Suffix(state, k)}
    IN  IF ks = {} THEN None
        ELSE LET own == Suffix(state, SetMax(ks))
             IN  Some(SetMax({i \in 1..Len(patterns) : patterns[i] = own}))

\* Head of the match list of a state: None, or Some(pattern index).
AcFirstMatch(patterns, state) ==
    LET ks == {k \in 1..Len(state) :
                  \E i \in 1..Len(patterns) : patterns[i] = Suffix(state, k)}
    IN  IF ks = {} THEN None
        ELSE LET own == Suffix(state, SetMax(ks))
             IN  Some(SetMin({i \in 1..Len(patterns) : patterns[i] = own}))

RECURSIVE AcScan(_, _, _, _)
AcScan(patterns, text, state, pos) ==
    IF pos > Len(text) THEN None
    ELSE LET next == AcStep(patterns, state, text[pos])
             m == AcFirstMatch(patterns, next)
         IN  IF m # None THEN m ELSE AcScan(patterns, text, next, pos + 1)

\* bundle.ac.find(&text): None, or Some(pattern index of the match).
AcFind(patterns, text) == AcScan(patterns, text, <<>>, 1)

\* Whether AhoCorasick::new(patterns) returns Ok.
AcBuildOk(patterns) == SumLen(patterns) <= AcStateLimit

(***************************************************************************)
(* Regular expressions.  A pattern is a sequence of tokens: a character    *)
(* matches itself, "." matches any character, and a pattern holding "("    *)
(* (an unclosed group) does not compile.  Matching is unanchored.          *)
(***************************************************************************)
\* Regex::new(pattern).is_ok()
RegexNewOk(pattern) == \A j \in 1..Len(pattern) : pattern[j] # "("

\* Regex::is_match
IsMatch(pattern, text) ==
    \E s \in 0..(Len(text) - Len(pattern)) :
        \A j \in 1..Len(pattern) :
            pattern[j] = "." \/ pattern[j] = text[s + j]

\* bundle.set.matches(&text): the indices of the matching patterns.
SetMatches(set, text) == {i \in 1..Len(set) : IsMatch(set[i], text)}

\* Whether RegexSet::new(&patterns) returns Ok.
RegexSetBuildOk(patterns) == SumLen(patterns) <= RegexSetSizeLimit

(***************************************************************************)
(* Values.                                                                 *)
(***************************************************************************)
\* ModerationAction, as its Display string.
Actions == {"APPROVED", "REJECTED", "NEEDS_REVIEW"}

\* The placeholder of a regex rule stored without a description (the source's
\* Turkish text, written in ASCII).
DefaultDescription ==
    <<"R", "e", "g", "e", "x", " ", "k", "u", "r", "a", "l", "i">>

\* The tasks: main, and the request slots of the administrative handlers.
Handlers == {"h1", "h2"}
Procs == {"main"} \cup Handlers
\* The request slots of /moderate.
Readers == {"r1"}

(***************************************************************************)
(* Inputs of the requests.                                                 *)
(***************************************************************************)
\* (word, action) of BadWordCreate.
BadWordInputs ==
    {<<(<<"b", "c">>), "REJECTED">>,
     <<(<<"a", "b">>), "REJECTED">>,
     <<(<<"a">>), "REJECTED">>}
\* word of DELETE /rules/badwords/{word}.
WordInputs == {<<"a", "b">>, <<"b", "c">>}
\* (pattern, description, action) of RegexRuleCreate.
RegexInputs ==
    {<<(<<"a">>), Some(<<"d">>), "NEEDS_REVIEW">>,
     <<(<<"(">>), None, "REJECTED">>,
     <<(<<>>), None, "REJECTED">>}
\* (key, value) of SettingInsert.
SettingInputs == {<<(<<"k", "1">>), "v1">>, <<(<<"K">>), "v1">>}
\* content of CommentRequest.
ContentInputs == {<<"x", "A", "B", "c">>, <<"b", "x">>, <<>>}

(***************************************************************************)
(* State.                                                                  *)
(***************************************************************************)
VARIABLES
    \* The store: the three tables, in the order of their SELECT ... ORDER BY.
    tbl_bad_words,      \* sequence of [word, moderation_action], by id
    tbl_regex_rules,    \* sequence of [id, pattern, description, moderation_action]
    tbl_settings,       \* sequence of [key, value], by key
    regex_id_seq,       \* last value of the serial id of regex_rules
    \* ModerationCache
    bad_words,          \* normalized word -> action
    regex_rules,        \* id -> [re, desc, action]
    settings,           \* key -> value
    bad_words_matcher,  \* None or Some(BadWordsMatcher)
    regex_set_bundle,   \* None or Some(RegexSetBundle)
    bw_read_guards,     \* readers holding a read guard of bad_words_matcher
    rx_read_guards,     \* readers holding a read guard of regex_set_bundle
    \* The tasks.
    pc,                 \* position of each task
    rows,               \* the rows a task fetched
    idx,                \* position of a task's insert loop
    built,              \* the bundle a task built and has not published yet
    outcome,            \* what a finished handler returned
    \* The /moderate requests.
    rpc,                \* position of each request
    text,               \* the lowercased content
    pat_index,          \* the pattern index found
    resp,               \* the ModerationResponse
    \* Bookkeeping of the run (not state of the program).
    calls,              \* handler calls started
    call,               \* per task: what the current call did so far
    seen,               \* per request: the bundles published when it locked them
    pub                 \* per kind: the rows of the call that published last

store_vars == <<tbl_bad_words, tbl_regex_rules, tbl_settings, regex_id_seq>>
cache_vars == <<bad_words, regex_rules, settings>>
bundle_vars == <<bad_words_matcher, regex_set_bundle>>
guard_vars == <<bw_read_guards, rx_read_guards>>
task_vars == <<pc, rows, idx, built, outcome>>
reader_vars == <<rpc, text, pat_index, resp>>
ghost_vars == <<calls, call, seen, pub>>
vars == <<store_vars, cache_vars, bundle_vars, guard_vars, task_vars,
          reader_vars, ghost_vars>>

\* The empty map (an invalidated cache).
EmptyMap == <<>>

\* Cache::insert: the entry of key k is v afterwards.
CacheInsert(cache, k, v) == (k :> v) @@ cache

(***************************************************************************)
(* Helpers of the tasks.                                                   *)
(***************************************************************************)
\* The listener is bound: main reached axum::serve.
Serving == pc["main"] = "serving"

\* A request is served in the first free request slot.
SlotFree(p) ==
    /\ pc[p] = "idle"
    /\ p = "h2" => pc["h1"] # "idle"

\* What the current call of a task did so far.
\* kind: the rule kind of the call; wrote: its statement changed the store;
\* fetched: the table its SELECT read; loaded: the kind and the rows its
\* load_* call was given; ids: the keys in the order iter() visited them;
\* published: it replaced a published bundle.
NoCall == [kind |-> "", wrote |-> FALSE, fetched |-> None, loaded |-> None,
           ids |-> <<>>, published |-> FALSE]

\* A lock that grants the write guard while read guards are out.
CanWrite_IgnoringReaders(read_guards) == read_guards \subseteq Readers

\* RwLock::write: granted when no read guard is out (a write guard is never
\* held across a step of the model).
CanWrite(read_guards) == read_guards = {}

\* A panic: in main it ends the process, in a handler it ends the request.
PanicPc(p) == IF p = "main" THEN "aborted" ELSE "done"

\* Where a task goes when its load_* call returns.
AfterLoad(p, next_main) == IF p = "main" THEN next_main ELSE "done"

\* All orders in which Cache::iter may visit the keys of S.
Orders(S) ==
    {o \in [1..Cardinality(S) -> S] :
        \A i, j \in 1..Cardinality(S) : i # j => o[i] # o[j]}

(***************************************************************************)
(* Literal words: add_badword, delete_badword, load_bad_words.             *)
(***************************************************************************)
\* add_badword that answers after its INSERT, the reload left out.
AddBadword_NoReload(p, word, action) ==
    /\ Serving /\ SlotFree(p) /\ calls < MaxCalls
    /\ calls' = calls + 1
    /\ LET conflict == \E i \in 1..Len(tbl_bad_words) :
                            tbl_bad_words[i].word = word
       IN  /\ tbl_bad_words' =
                 IF conflict \/ Len(word) < WordMinLen THEN tbl_bad_words
                 ELSE Append(tbl_bad_words,
                             [word |-> word, moderation_action |-> action])
           /\ pc' = [pc EXCEPT ![p] = "done"]
           /\ outcome' = [outcome EXCEPT ![p] =
                            IF Len(word) < WordMinLen THEN "Validation"
                            ELSE "Ok"]
           /\ call' = [call EXCEPT ![p] =
                         [NoCall EXCEPT !.kind = "lit",
                                        !.wrote = ~conflict
                                                  /\ Len(word) >= WordMinLen]]
    /\ UNCHANGED <<tbl_regex_rules, tbl_settings, regex_id_seq, cache_vars,
                   bundle_vars, guard_vars, rows, idx, built, reader_vars,
                   seen, pub>>

\* add_badword up to its INSERT.
AddBadword(p, word, action) ==
    /\ Serving /\ SlotFree(p) /\ calls < MaxCalls
    /\ calls' = calls + 1
    /\ IF Len(word) < WordMinLen
       THEN /\ pc' = [pc EXCEPT ![p] = "done"]
            /\ outcome' = [outcome EXCEPT ![p] = "Validation"]
            /\ call' = [call EXCEPT ![p] = [NoCall EXCEPT !.kind = "lit"]]
            /\ UNCHANGED tbl_bad_words
       ELSE LET conflict == \E i \in 1..Len(tbl_bad_words) :
                                tbl_bad_words[i].word = word
            IN  /\ tbl_bad_words' =
                      IF conflict THEN tbl_bad_words
                      ELSE Append(tbl_bad_words,
                                  [word |-> word, moderation_action |-> action])
                /\ pc' = [pc EXCEPT ![p] = "fetch_bw"]
                /\ call' = [call EXCEPT ![p] =
                              [NoCall EXCEPT !.kind = "lit", !.wrote = ~conflict]]
                /\ UNCHANGED outcome
    /\ UNCHANGED <<tbl_regex_rules, tbl_settings, regex_id_seq, cache_vars,
                   bundle_vars, guard_vars, rows, idx, built, reader_vars, seen, pub>>

\* delete_badword without the early return: NotFound is noted and the reload
\* runs all the same.
DeleteBadword_NoEarlyReturn(p, word) ==
    /\ Serving /\ SlotFree(p) /\ calls < MaxCalls
    /\ calls' = calls + 1
    /\ LET kept == SelectSeq(tbl_bad_words, LAMBDA r : r.word # word)
       IN  /\ tbl_bad_words' = kept
           /\ pc' = [pc EXCEPT ![p] = "fetch_bw"]
           /\ outcome' = [outcome EXCEPT ![p] =
                            IF Len(kept) = Len(tbl_bad_words)
                            THEN "NotFound" ELSE ""]
           /\ call' = [call EXCEPT ![p] =
                         [NoCall EXCEPT !.kind = "lit",
                                        !.wrote = Len(kept) # Len(tbl_bad_words)]]
    /\ UNCHANGED <<tbl_regex_rules, tbl_settings, regex_id_seq, cache_vars,
                   bundle_vars, guard_vars, rows, idx, built, reader_vars,
                   seen, pub>>

\* delete_badword up to the check of rows_affected.
DeleteBadword(p, word) ==
    /\ Serving /\ SlotFree(p) /\ calls < MaxCalls
    /\ calls' = calls + 1
    /\ LET kept == SelectSeq(tbl_bad_words, LAMBDA r : r.word # word)
       IN  IF Len(kept) = Len(tbl_bad_words)
           THEN /\ pc' = [pc EXCEPT ![p] = "done"]
                /\ outcome' = [outcome EXCEPT ![p] = "NotFound"]
                /\ call' = [call EXCEPT ![p] = [NoCall EXCEPT !.kind = "lit"]]
                /\ UNCHANGED tbl_bad_words
           ELSE /\ tbl_bad_words' = kept
                /\ pc' = [pc EXCEPT ![p] = "fetch_bw"]
                /\ call' = [call EXCEPT ![p] =
                              [NoCall EXCEPT !.kind = "lit", !.wrote = TRUE]]
                /\ UNCHANGED outcome
    /\ UNCHANGED <<tbl_regex_rules, tbl_settings, regex_id_seq, cache_vars,
                   bundle_vars, guard_vars, rows, idx, built, reader_vars, seen, pub>>

\* SELECT * FROM bad_words ORDER BY id, mapped to (word, action) pairs.
FetchBadWords(p) ==
    /\ pc[p] = "fetch_bw"
    /\ rows' = [rows EXCEPT ![p] =
                  [i \in 1..Len(tbl_bad_words) |->
                      [word |-> tbl_bad_words[i].word,
                       action |-> tbl_bad_words[i].moderation_action]]]
    /\ pc' = [pc EXCEPT ![p] = "lbw_invalidate"]
    /\ call' = [call EXCEPT ![p].kind = "lit",
                             ![p].fetched = Some(tbl_bad_words)]
    /\ UNCHANGED <<store_vars, cache_vars, bundle_vars, guard_vars, idx, built,
                   outcome, reader_vars, calls, seen, pub>>

\* A matcher whose actions are looked up by normalized word, so that rules
\* sharing a normalized word all get the action of the last of them.
BadWordsMatcherOf_ActionsByWord(words) ==
    LET patterns == [i \in 1..Len(words) |-> to_lowercase(words[i].word)]
        last(i) == CHOOSE j \in 1..Len(words) :
                      /\ patterns[j] = patterns[i]
                      /\ \A k \in 1..Len(words) :
                            patterns[k] = patterns[i] => k <= j
        actions == [i \in 1..Len(words) |-> words[last(i)].action]
    IN  [ac |-> patterns, words |-> patterns, actions |-> actions]

\* A matcher built from the words as they are stored, not lower-cased.
BadWordsMatcherOf_AsStored(words) ==
    LET patterns == [i \in 1..Len(words) |-> words[i].word]
        actions == [i \in 1..Len(words) |-> words[i].action]
    IN  [ac |-> patterns, words |-> patterns, actions |-> actions]

\* The BadWordsMatcher of the words a load_bad_words call was given.
BadWordsMatcherOf(words) ==
    LET patterns == [i \in 1..Len(words) |-> to_lowercase(words[i].word)]
        actions == [i \in 1..Len(words) |-> words[i].action]
    IN  [ac |-> patterns, words |-> patterns, actions |-> actions]

\* load_bad_words, after the loop: the build of the automaton from the local
\* vectors (no shared state is read or written).  The task is left with the
\* value to publish, or panics in expect().
LbwBuild(p) ==
    LET matcher == BadWordsMatcherOf(rows[p])
    IN  IF matcher.words = <<>>
        THEN /\ built' = [built EXCEPT ![p] = None]
             /\ pc' = [pc EXCEPT ![p] = "lbw_publish"]
             /\ UNCHANGED outcome
        ELSE IF AcBuildOk(matcher.words)
        THEN /\ built' = [built EXCEPT ![p] = Some(matcher)]
             /\ pc' = [pc EXCEPT ![p] = "lbw_publish"]
             /\ UNCHANGED outcome
        ELSE /\ pc' = [pc EXCEPT ![p] = PanicPc(p)]
             /\ outcome' = [outcome EXCEPT ![p] = "Panic"]
             /\ UNCHANGED built

\* load_bad_words that invalidates the raw cache of the regex rules as well.
LbwInvalidate_BothCaches(p) ==
    /\ pc[p] = "lbw_invalidate"
    /\ bad_words' = EmptyMap
    /\ regex_rules' = EmptyMap
    /\ idx' = [idx EXCEPT ![p] = 1]
    /\ IF rows[p] = <<>>
       THEN LbwBuild(p)
       ELSE /\ pc' = [pc EXCEPT ![p] = "lbw_loop"]
            /\ UNCHANGED <<built, outcome>>
    /\ call' = [call EXCEPT ![p].loaded = Some(<<"lit", rows[p]>>)]
    /\ UNCHANGED <<store_vars, settings, bundle_vars, guard_vars,
                   rows, reader_vars, calls, seen, pub>>

\* load_bad_words: self.bad_words.invalidate_all(); with no words the loop is
\* skipped and the build follows.
LbwInvalidate(p) ==
    /\ pc[p] = "lbw_invalidate"
    /\ bad_words' = EmptyMap
    /\ idx' = [idx EXCEPT ![p] = 1]
    /\ IF rows[p] = <<>>
       THEN LbwBuild(p)
       ELSE /\ pc' = [pc EXCEPT ![p] = "lbw_loop"]
            /\ UNCHANGED <<built, outcome>>
    /\ call' = [call EXCEPT ![p].loaded = Some(<<"lit", rows[p]>>)]
    /\ UNCHANGED <<store_vars, regex_rules, settings, bundle_vars, guard_vars,
                   rows, reader_vars, calls, seen, pub>>

\* load_bad_words: one turn of the loop, the insert of a normalized word;
\* after the last one the build follows.
LbwInsert(p) ==
    /\ pc[p] = "lbw_loop" /\ idx[p] <= Len(rows[p])
    /\ bad_words' = CacheInsert(bad_words, to_lowercase(rows[p][idx[p]].word),
                                rows[p][idx[p]].action)
    /\ idx' = [idx EXCEPT ![p] = idx[p] + 1]
    /\ IF idx[p] = Len(rows[p])
       THEN LbwBuild(p)
       ELSE UNCHANGED <<pc, built, outcome>>
    /\ UNCHANGED <<store_vars, regex_rules, settings, bundle_vars, guard_vars,
                   rows, reader_vars, ghost_vars>>

\* load_bad_words that publishes a patch: only the rules whose word the
\* published bundle does not hold yet.
LbwPublish_Patch(p) ==
    /\ pc[p] = "lbw_publish"
    /\ CanWrite(bw_read_guards)
    /\ bad_words_matcher' =
          IF built[p] = None \/ bad_words_matcher = None THEN built[p]
          ELSE LET new == Unwrap(built[p])
                   old == Unwrap(bad_words_matcher)
                   keep == SelectSeq([i \in 1..Len(new.words) |-> i],
                              LAMBDA i : \A j \in 1..Len(old.words) :
                                            old.words[j] # new.words[i])
               IN  IF keep = <<>> THEN None
                   ELSE Some([ac |-> [k \in 1..Len(keep) |-> new.ac[keep[k]]],
                              words |-> [k \in 1..Len(keep) |->
                                            new.words[keep[k]]],
                              actions |-> [k \in 1..Len(keep) |->
                                              new.actions[keep[k]]]])
    /\ pc' = [pc EXCEPT ![p] = AfterLoad(p, "fetch_rx")]
    /\ outcome' = [outcome EXCEPT ![p] = "Ok"]
    /\ call' = [call EXCEPT ![p].published = TRUE]
    /\ pub' = [pub EXCEPT !.lit = Some(rows[p])]
    /\ UNCHANGED <<store_vars, cache_vars, regex_set_bundle, guard_vars, rows,
                   idx, built, reader_vars, calls, seen>>

\* load_bad_words: *self.bad_words_matcher.write().unwrap() = ..., and return.
LbwPublish(p) ==
    /\ pc[p] = "lbw_publish"
    /\ CanWrite(bw_read_guards)
    /\ bad_words_matcher' = built[p]
    /\ pc' = [pc EXCEPT ![p] = AfterLoad(p, "fetch_rx")]
    /\ outcome' = [outcome EXCEPT ![p] = "Ok"]
    /\ call' = [call EXCEPT ![p].published = TRUE]
    /\ pub' = [pub EXCEPT !.lit = Some(rows[p])]
    /\ UNCHANGED <<store_vars, cache_vars, regex_set_bundle, guard_vars, rows,
                   idx, built, reader_vars, calls, seen>>

(***************************************************************************)
(* Regex rules: add_regex, delete_regex, load_regex_rules.                 *)
(***************************************************************************)
\* add_regex up to its INSERT ... RETURNING.
AddRegex(p, pattern, description, action) ==
    /\ Serving /\ SlotFree(p) /\ calls < MaxCalls
    /\ calls' = calls + 1
    /\ IF Len(pattern) < 1 \/ ~RegexNewOk(pattern)
       THEN /\ pc' = [pc EXCEPT ![p] = "done"]
            /\ outcome' = [outcome EXCEPT ![p] =
                             IF Len(pattern) < 1 THEN "Validation" ELSE "Regex"]
            /\ call' = [call EXCEPT ![p] = [NoCall EXCEPT !.kind = "rx"]]
            /\ UNCHANGED <<tbl_regex_rules, regex_id_seq>>
       ELSE /\ regex_id_seq' = regex_id_seq + 1
            /\ tbl_regex_rules' =
                  Append(tbl_regex_rules,
                         [id |-> regex_id_seq + 1, pattern |-> pattern,
                          description |-> description,
                          moderation_action |-> action])
            /\ pc' = [pc EXCEPT ![p] = "fetch_rx"]
            /\ call' = [call EXCEPT ![p] =
                          [NoCall EXCEPT !.kind = "rx", !.wrote = TRUE]]
            /\ UNCHANGED outcome
    /\ UNCHANGED <<tbl_bad_words, tbl_settings, cache_vars, bundle_vars,
                   guard_vars, rows, idx, built, reader_vars, seen, pub>>

\* delete_regex up to the check of rows_affected.
DeleteRegex(p, id) ==
    /\ Serving /\ SlotFree(p) /\ calls < MaxCalls
    /\ calls' = calls + 1
    /\ LET kept == SelectSeq(tbl_regex_rules, LAMBDA r : r.id # id)
       IN  IF Len(kept) = Len(tbl_regex_rules)
           THEN /\ pc' = [pc EXCEPT ![p] = "done"]
                /\ outcome' = [outcome EXCEPT ![p] = "NotFound"]
                /\ call' = [call EXCEPT ![p] = [NoCall EXCEPT !.kind = "rx"]]
                /\ UNCHANGED tbl_regex_rules
           ELSE /\ tbl_regex_rules' = kept
                /\ pc' = [pc EXCEPT ![p] = "fetch_rx"]
                /\ call' = [call EXCEPT ![p] =
                              [NoCall EXCEPT !.kind = "rx", !.wrote = TRUE]]
                /\ UNCHANGED outcome
    /\ UNCHANGED <<tbl_bad_words, tbl_settings, regex_id_seq, cache_vars,
                   bundle_vars, guard_vars, rows, idx, built, reader_vars, seen, pub>>

\* SELECT * FROM regex_rules ORDER BY id, each pattern compiled with
\* Regex::new(..).unwrap() (expect in main): a pattern that does not compile
\* panics.
FetchRegex(p) ==
    /\ pc[p] = "fetch_rx"
    /\ IF \A i \in 1..Len(tbl_regex_rules) : RegexNewOk(tbl_regex_rules[i].pattern)
       THEN /\ rows' = [rows EXCEPT ![p] =
                  [i \in 1..Len(tbl_regex_rules) |->
                      [id |-> tbl_regex_rules[i].id,
                       re |-> tbl_regex_rules[i].pattern,
                       desc |-> IF tbl_regex_rules[i].description = None
                                THEN DefaultDescription
                                ELSE Unwrap(tbl_regex_rules[i].description),
                       action |-> tbl_regex_rules[i].moderation_action]]]
            /\ pc' = [pc EXCEPT ![p] = "lrr_invalidate"]
            /\ call' = [call EXCEPT ![p].kind = "rx",
                                     ![p].fetched = Some(tbl_regex_rules)]
            /\ UNCHANGED outcome
       ELSE /\ pc' = [pc EXCEPT ![p] = PanicPc(p)]
            /\ outcome' = [outcome EXCEPT ![p] = "Panic"]
            /\ call' = [call EXCEPT ![p].kind = "rx"]
            /\ UNCHANGED rows
    /\ UNCHANGED <<store_vars, cache_vars, bundle_vars, guard_vars, idx, built,
                   reader_vars, calls, seen, pub>>

\* load_regex_rules: self.regex_rules.invalidate_all()
LrrInvalidate(p) ==
    /\ pc[p] = "lrr_invalidate"
    /\ regex_rules' = EmptyMap
    /\ idx' = [idx EXCEPT ![p] = 1]
    /\ pc' = [pc EXCEPT ![p] = "lrr_loop"]
    /\ call' = [call EXCEPT ![p].loaded = Some(<<"rx", rows[p]>>)]
    /\ UNCHANGED <<store_vars, bad_words, settings, bundle_vars, guard_vars,
                   rows, built, outcome, reader_vars, calls, seen, pub>>

\* load_regex_rules: one turn of the first loop, the insert of a rule by id.
LrrInsert(p) ==
    /\ pc[p] = "lrr_loop" /\ idx[p] <= Len(rows[p])
    /\ regex_rules' = CacheInsert(regex_rules, rows[p][idx[p]].id,
                                  [re |-> rows[p][idx[p]].re,
                                   desc |-> rows[p][idx[p]].desc,
                                   action |-> rows[p][idx[p]].action])
    /\ idx' = [idx EXCEPT ![p] = idx[p] + 1]
    /\ UNCHANGED <<store_vars, bad_words, settings, bundle_vars, guard_vars,
                   pc, rows, built, outcome, reader_vars, ghost_vars>>

\* A bundle whose descriptions vector is pushed to only for the rules stored
\* with a description of their own.
RegexSetBundleOf_OwnDescriptionsOnly(cache, order) ==
    [set |-> [i \in 1..Len(order) |-> cache[order[i]].re],
     descriptions |->
         LET own == SelectSeq(order,
                       LAMBDA k : cache[k].desc # DefaultDescription)
         IN  [i \in 1..Len(own) |-> cache[own[i]].desc],
     actions |-> [i \in 1..Len(order) |-> cache[order[i]].action]]

\* The RegexSetBundle of the cache entries as self.regex_rules.iter() visits
\* them in the given order of keys.
RegexSetBundleOf(cache, order) ==
    [set |-> [i \in 1..Len(order) |-> cache[order[i]].re],
     descriptions |-> [i \in 1..Len(order) |-> cache[order[i]].desc],
     actions |-> [i \in 1..Len(order) |-> cache[order[i]].action]]

\* load_regex_rules that stores the bundle before it looks at the result of
\* RegexSet::new.
LrrBuild_PublishBeforeCheck(p) ==
    /\ pc[p] = "lrr_loop" /\ idx[p] > Len(rows[p])
    /\ \E order \in Orders(DOMAIN regex_rules) :
        LET bundle == RegexSetBundleOf(regex_rules, order)
        IN  IF bundle.set = <<>> \/ RegexSetBuildOk(bundle.set)
            THEN /\ built' = [built EXCEPT ![p] =
                                IF bundle.set = <<>> THEN None ELSE Some(bundle)]
                 /\ pc' = [pc EXCEPT ![p] = "lrr_publish"]
                 /\ call' = [call EXCEPT ![p].ids = order]
                 /\ UNCHANGED <<outcome, regex_set_bundle>>
            ELSE /\ pc' = [pc EXCEPT ![p] = PanicPc(p)]
                 /\ outcome' = [outcome EXCEPT ![p] = "Panic"]
                 /\ regex_set_bundle' = Some(bundle)
                 /\ UNCHANGED <<built, call>>
    /\ UNCHANGED <<store_vars, cache_vars, bad_words_matcher, guard_vars, rows,
                   idx, reader_vars, calls, seen, pub>>

\* load_regex_rules that takes the write lock first and builds the RegexSet
\* under it.
LrrBuild_UnderWriteLock(p) ==
    /\ pc[p] = "lrr_loop" /\ idx[p] > Len(rows[p])
    /\ CanWrite(rx_read_guards)
    /\ \E order \in Orders(DOMAIN regex_rules) :
        LET bundle == RegexSetBundleOf(regex_rules, order)
        IN  IF bundle.set = <<>>
            THEN /\ built' = [built EXCEPT ![p] = None]
                 /\ pc' = [pc EXCEPT ![p] = "lrr_publish"]
                 /\ call' = [call EXCEPT ![p].ids = order]
                 /\ UNCHANGED outcome
            ELSE IF RegexSetBuildOk(bundle.set)
            THEN /\ built' = [built EXCEPT ![p] = Some(bundle)]
                 /\ pc' = [pc EXCEPT ![p] = "lrr_publish"]
                 /\ call' = [call EXCEPT ![p].ids = order]
                 /\ UNCHANGED outcome
            ELSE /\ pc' = [pc EXCEPT ![p] = PanicPc(p)]
                 /\ outcome' = [outcome EXCEPT ![p] = "Panic"]
                 /\ UNCHANGED <<built, call>>
    /\ UNCHANGED <<store_vars, cache_vars, bundle_vars, guard_vars, rows, idx,
                   reader_vars, calls, seen, pub>>

\* load_regex_rules: the second loop over self.regex_rules.iter(), which
\* visits the entries of the shared cache in an arbitrary order, and the
\* build of the RegexSet.
LrrBuild(p) ==
    /\ pc[p] = "lrr_loop" /\ idx[p] > Len(rows[p])
    /\ \E order \in Orders(DOMAIN regex_rules) :
        LET bundle == RegexSetBundleOf(regex_rules, order)
        IN  IF bundle.set = <<>>
            THEN /\ built' = [built EXCEPT ![p] = None]
                 /\ pc' = [pc EXCEPT ![p] = "lrr_publish"]
                 /\ call' = [call EXCEPT ![p].ids = order]
                 /\ UNCHANGED outcome
            ELSE IF RegexSetBuildOk(bundle.set)
            THEN /\ built' = [built EXCEPT ![p] = Some(bundle)]
                 /\ pc' = [pc EXCEPT ![p] = "lrr_publish"]
                 /\ call' = [call EXCEPT ![p].ids = order]
                 /\ UNCHANGED outcome
            ELSE /\ pc' = [pc EXCEPT ![p] = PanicPc(p)]
                 /\ outcome' = [outcome EXCEPT ![p] = "Panic"]
                 /\ UNCHANGED <<built, call>>
    /\ UNCHANGED <<store_vars, cache_vars, bundle_vars, guard_vars, rows, idx,
                   reader_vars, calls, seen, pub>>

\* load_regex_rules: *self.regex_set_bundle.write().unwrap() = ..., and return.
LrrPublish(p) ==
    /\ pc[p] = "lrr_publish"
    /\ CanWrite(rx_read_guards)
    /\ regex_set_bundle' = built[p]
    /\ pc' = [pc EXCEPT ![p] = AfterLoad(p, "fetch_set")]
    /\ outcome' = [outcome EXCEPT ![p] = "Ok"]
    /\ call' = [call EXCEPT ![p].published = TRUE]
    /\ pub' = [pub EXCEPT !.rx = Some(rows[p]), !.rx_ids = call[p].ids]
    /\ UNCHANGED <<store_vars, cache_vars, bad_words_matcher, guard_vars, rows,
                   idx, built, reader_vars, calls, seen>>

(***************************************************************************)
(* Settings: insert_setting, load_settings.                                *)
(***************************************************************************)
\* garde pattern ^[a-z0-9_]{2,64}$ of SettingInsert.key; the model has no key
\* longer than the maximum.
SettingKeyOk(key) ==
    /\ Len(key) >= 2
    /\ \A i \in 1..Len(key) : key[i] \in {"a", "b", "c", "k", "x", "1", "_"}

\* insert_setting up to its INSERT ... ON CONFLICT (key) DO UPDATE.
InsertSetting(p, key, value) ==
    /\ Serving /\ SlotFree(p) /\ calls < MaxCalls
    /\ calls' = calls + 1
    /\ IF ~SettingKeyOk(key)
       THEN /\ pc' = [pc EXCEPT ![p] = "done"]
            /\ outcome' = [outcome EXCEPT ![p] = "Validation"]
            /\ call' = [call EXCEPT ![p] = [NoCall EXCEPT !.kind = "set"]]
            /\ UNCHANGED tbl_settings
       ELSE /\ tbl_settings' =
                  IF \E i \in 1..Len(tbl_settings) : tbl_settings[i].key = key
                  THEN [i \in 1..Len(tbl_settings) |->
                           IF tbl_settings[i].key = key
                           THEN [key |-> key, value |-> value]
                           ELSE tbl_settings[i]]
                  ELSE Append(tbl_settings, [key |-> key, value |-> value])
            /\ pc' = [pc EXCEPT ![p] = "fetch_set"]
            /\ call' = [call EXCEPT ![p] =
                          [NoCall EXCEPT !.kind = "set", !.wrote = TRUE]]
            /\ UNCHANGED outcome
    /\ UNCHANGED <<tbl_bad_words, tbl_regex_rules, regex_id_seq, cache_vars,
                   bundle_vars, guard_vars, rows, idx, built, reader_vars, seen, pub>>

\* SELECT * FROM settings ORDER BY key.
FetchSettings(p) ==
    /\ pc[p] = "fetch_set"
    /\ rows' = [rows EXCEPT ![p] = tbl_settings]
    /\ pc' = [pc EXCEPT ![p] = "ls_invalidate"]
    /\ call' = [call EXCEPT ![p].kind = "set",
                             ![p].fetched = Some(tbl_settings)]
    /\ UNCHANGED <<store_vars, cache_vars, bundle_vars, guard_vars, idx, built,
                   outcome, reader_vars, calls, seen, pub>>

\* load_settings: self.settings.invalidate_all(); with no rows the loop is
\* skipped and the call returns.
LsInvalidate(p) ==
    /\ pc[p] = "ls_invalidate"
    /\ settings' = EmptyMap
    /\ idx' = [idx EXCEPT ![p] = 1]
    /\ IF rows[p] = <<>>
       THEN /\ pc' = [pc EXCEPT ![p] = AfterLoad(p, "serving")]
            /\ outcome' = [outcome EXCEPT ![p] = "Ok"]
       ELSE /\ pc' = [pc EXCEPT ![p] = "ls_loop"]
            /\ UNCHANGED outcome
    /\ call' = [call EXCEPT ![p].loaded = Some(<<"set", rows[p]>>)]
    /\ UNCHANGED <<store_vars, bad_words, regex_rules, bundle_vars, guard_vars,
                   rows, built, reader_vars, calls, seen, pub>>

\* load_settings: one turn of the loop; after the last one the call returns.
LsInsert(p) ==
    /\ pc[p] = "ls_loop" /\ idx[p] <= Len(rows[p])
    /\ settings' = CacheInsert(settings, rows[p][idx[p]].key,
                               rows[p][idx[p]].value)
    /\ idx' = [idx EXCEPT ![p] = idx[p] + 1]
    /\ IF idx[p] = Len(rows[p])
       THEN /\ pc' = [pc EXCEPT ![p] = AfterLoad(p, "serving")]
            /\ outcome' = [outcome EXCEPT ![p] = "Ok"]
       ELSE UNCHANGED <<pc, outcome>>
    /\ UNCHANGED <<store_vars, bad_words, regex_rules, bundle_vars, guard_vars,
                   rows, built, reader_vars, ghost_vars>>

\* The response of a handler has been sent: its request slot is free again.
Return(p) ==
    /\ p \in Handlers /\ pc[p] = "done"
    /\ pc' = [pc EXCEPT ![p] = "idle"]
    /\ rows' = [rows EXCEPT ![p] = <<>>]
    /\ idx' = [idx EXCEPT ![p] = 0]
    /\ built' = [built EXCEPT ![p] = None]
    /\ outcome' = [outcome EXCEPT ![p] = ""]
    /\ call' = [call EXCEPT ![p] = NoCall]
    /\ UNCHANGED <<store_vars, cache_vars, bundle_vars, guard_vars,
                   reader_vars, calls, seen, pub>>

(***************************************************************************)
(* /moderate: api_moderate and moderate_comment.                           *)
(***************************************************************************)
NoResponse == [status |-> "", reason |-> None]
NoSeen == [lit |-> None, rx |-> None]

\* format!("Küfür tespit edildi: {word}") (the prefix written in ASCII)
LiteralPrefix ==
    <<"K", "u", "f", "u", "r", " ", "t", "e", "s", "p", "i", "t", " ",
      "e", "d", "i", "l", "d", "i", ":", " ">>
LiteralReason(word) == LiteralPrefix \o word

\* An index past the end of a Vec, or an unwrap of None: the request panics.
PanicResponse == [status |-> "PANIC", reason |-> None]

\* Whether w occurs in t starting after position s.
OccursAt(w, t, s) == s + Len(w) <= Len(t) /\ SubSeq(t, s + 1, s + Len(w)) = w
Starts(w, t) == {s \in 0..Len(t) : OccursAt(w, t, s)}

\* /moderate served by a listener that is bound before the startup loads.
ApiModerate_BeforeServing(r, content) ==
    /\ rpc[r] = "idle"
    /\ IF Len(content) < 1
       THEN /\ rpc' = [rpc EXCEPT ![r] = "done"]
            /\ resp' = [resp EXCEPT ![r] = [status |-> "Validation",
                                            reason |-> None]]
            /\ UNCHANGED <<text, bw_read_guards, seen>>
       ELSE /\ text' = [text EXCEPT ![r] = to_lowercase(content)]
            /\ bw_read_guards' = bw_read_guards \cup {r}
            /\ seen' = [seen EXCEPT ![r].lit = bad_words_matcher]
            /\ rpc' = [rpc EXCEPT ![r] = "lit_find"]
            /\ UNCHANGED resp
    /\ UNCHANGED <<store_vars, cache_vars, bundle_vars, rx_read_guards,
                   task_vars, pat_index, calls, call, pub>>

\* api_moderate: the validation of the body (garde length(min = 1)), then
\* moderate_comment up to the read lock of bad_words_matcher.
ApiModerate(r, content) ==
    /\ Serving /\ rpc[r] = "idle"
    /\ IF Len(content) < 1
       THEN /\ rpc' = [rpc EXCEPT ![r] = "done"]
            /\ resp' = [resp EXCEPT ![r] = [status |-> "Validation",
                                            reason |-> None]]
            /\ UNCHANGED <<text, bw_read_guards, seen>>
       ELSE /\ text' = [text EXCEPT ![r] = to_lowercase(content)]
            /\ bw_read_guards' = bw_read_guards \cup {r}
            /\ seen' = [seen EXCEPT ![r].lit = bad_words_matcher]
            /\ rpc' = [rpc EXCEPT ![r] = "lit_find"]
            /\ UNCHANGED resp
    /\ UNCHANGED <<store_vars, cache_vars, bundle_vars, rx_read_guards,
                   task_vars, pat_index, calls, call, pub>>

\* moderate_comment with the regex rules consulted first: the literal bundle
\* is passed over.
LitFind_RegexFirst(r) ==
    /\ rpc[r] = "lit_find"
    /\ bw_read_guards' = bw_read_guards \ {r}
    /\ rpc' = [rpc EXCEPT ![r] = "rx_lock"]
    /\ UNCHANGED <<store_vars, cache_vars, bundle_vars, rx_read_guards,
                   task_vars, text, pat_index, resp, ghost_vars>>

\* moderate_comment: bundle.ac.find(&text) under the read guard; without a
\* bundle or a match the guard is dropped.
LitFind(r) ==
    /\ rpc[r] = "lit_find"
    /\ LET mat == IF bad_words_matcher = None THEN None
                  ELSE AcFind(Unwrap(bad_words_matcher).ac, text[r])
       IN  IF mat = None
           THEN /\ bw_read_guards' = bw_read_guards \ {r}
                /\ rpc' = [rpc EXCEPT ![r] = "rx_lock"]
                /\ UNCHANGED pat_index
           ELSE /\ pat_index' = [pat_index EXCEPT ![r] = Unwrap(mat)]
                /\ rpc' = [rpc EXCEPT ![r] = "lit_read"]
                /\ UNCHANGED bw_read_guards
    /\ UNCHANGED <<store_vars, cache_vars, bundle_vars, rx_read_guards,
                   task_vars, text, resp, ghost_vars>>

\* moderate_comment that takes the action of the word found from the raw
\* cache of the words instead of the bundle.
LitRead_ActionOfRawCache(r) ==
    /\ rpc[r] = "lit_read"
    /\ resp' = [resp EXCEPT ![r] =
                  IF bad_words_matcher = None THEN PanicResponse
                  ELSE LET bundle == Unwrap(bad_words_matcher)
                           word == bundle.words[pat_index[r]]
                       IN  [status |-> IF word \in DOMAIN bad_words
                                       THEN bad_words[word] ELSE "APPROVED",
                            reason |-> Some(LiteralReason(word))]]
    /\ bw_read_guards' = bw_read_guards \ {r}
    /\ rpc' = [rpc EXCEPT ![r] = "done"]
    /\ UNCHANGED <<store_vars, cache_vars, bundle_vars, rx_read_guards,
                   task_vars, text, pat_index, ghost_vars>>

\* moderate_comment: bundle.words[pat_index], bundle.actions[pat_index], the
\* response, and the drop of the read guard.
LitRead(r) ==
    /\ rpc[r] = "lit_read"
    /\ resp' = [resp EXCEPT ![r] =
                  IF bad_words_matcher = None THEN PanicResponse
                  ELSE LET bundle == Unwrap(bad_words_matcher)
                       IN  IF pat_index[r] > Len(bundle.words)
                              \/ pat_index[r] > Len(bundle.actions)
                           THEN PanicResponse
                           ELSE [status |-> bundle.actions[pat_index[r]],
                                 reason |-> Some(LiteralReason(
                                               bundle.words[pat_index[r]]))]]
    /\ bw_read_guards' = bw_read_guards \ {r}
    /\ rpc' = [rpc EXCEPT ![r] = "done"]
    /\ UNCHANGED <<store_vars, cache_vars, bundle_vars, rx_read_guards,
                   task_vars, text, pat_index, ghost_vars>>

\* moderate_comment: the read lock of regex_set_bundle.
RxLock(r) ==
    /\ rpc[r] = "rx_lock"
    /\ rx_read_guards' = rx_read_guards \cup {r}
    /\ seen' = [seen EXCEPT ![r].rx = regex_set_bundle]
    /\ rpc' = [rpc EXCEPT ![r] = "rx_match"]
    /\ UNCHANGED <<store_vars, cache_vars, bundle_vars, bw_read_guards,
                   task_vars, text, pat_index, resp, calls, call, pub>>

\* moderate_comment: bundle.set.matches(&text).into_iter().next() under the
\* read guard; without a bundle or a match the answer is APPROVED.
RxMatch(r) ==
    /\ rpc[r] = "rx_match"
    /\ LET matches == IF regex_set_bundle = None THEN {}
                      ELSE SetMatches(Unwrap(regex_set_bundle).set, text[r])
       IN  IF matches = {}
           THEN /\ resp' = [resp EXCEPT ![r] = [status |-> "APPROVED",
                                                reason |-> None]]
                /\ rx_read_guards' = rx_read_guards \ {r}
                /\ rpc' = [rpc EXCEPT ![r] = "done"]
                /\ UNCHANGED pat_index
           ELSE /\ pat_index' = [pat_index EXCEPT ![r] = SetMin(matches)]
                /\ rpc' = [rpc EXCEPT ![r] = "rx_read"]
                /\ UNCHANGED <<resp, rx_read_guards>>
    /\ UNCHANGED <<store_vars, cache_vars, bundle_vars, bw_read_guards,
                   task_vars, text, ghost_vars>>

\* moderate_comment: bundle.actions[idx], bundle.descriptions[idx], the
\* response, and the drop of the read guard.
RxRead(r) ==
    /\ rpc[r] = "rx_read"
    /\ resp' = [resp EXCEPT ![r] =
                  IF regex_set_bundle = None THEN PanicResponse
                  ELSE LET bundle == Unwrap(regex_set_bundle)
                       IN  IF pat_index[r] > Len(bundle.actions)
                              \/ pat_index[r] > Len(bundle.descriptions)
                           THEN PanicResponse
                           ELSE [status |-> bundle.actions[pat_index[r]],
                                 reason |-> Some(
                                     bundle.descriptions[pat_index[r]])]]
    /\ rx_read_guards' = rx_read_guards \ {r}
    /\ rpc' = [rpc EXCEPT ![r] = "done"]
    /\ UNCHANGED <<store_vars, cache_vars, bundle_vars, bw_read_guards,
                   task_vars, text, pat_index, ghost_vars>>

\* The response of /moderate has been sent: its request slot is free again.
ModerateReturn(r) ==
    /\ rpc[r] = "done"
    /\ rpc' = [rpc EXCEPT ![r] = "idle"]
    /\ text' = [text EXCEPT ![r] = <<>>]
    /\ pat_index' = [pat_index EXCEPT ![r] = 0]
    /\ resp' = [resp EXCEPT ![r] = NoResponse]
    /\ seen' = [seen EXCEPT ![r] = NoSeen]
    /\ UNCHANGED <<store_vars, cache_vars, bundle_vars, guard_vars, task_vars,
                   calls, call, pub>>

(***************************************************************************)
(* The initial state: ModerationCache::new() and the store as main finds   *)
(* it, before the startup loads.                                           *)
(***************************************************************************)
InitWith(bw_tables, rx_tables, set_tables) ==
    /\ tbl_bad_words \in bw_tables
    /\ tbl_regex_rules \in rx_tables
    /\ tbl_settings \in set_tables
    /\ regex_id_seq = Len(tbl_regex_rules)
    /\ bad_words = EmptyMap
    /\ regex_rules = EmptyMap
    /\ settings = EmptyMap
    /\ bad_words_matcher = None
    /\ regex_set_bundle = None
    /\ bw_read_guards = {}
    /\ rx_read_guards = {}
    /\ pc = [p \in Procs |-> IF p = "main" THEN "fetch_bw" ELSE "idle"]
    /\ rows = [p \in Procs |-> <<>>]
    /\ idx = [p \in Procs |-> 0]
    /\ built = [p \in Procs |-> None]
    /\ outcome = [p \in Procs |-> ""]
    /\ rpc = [r \in Readers |-> "idle"]
    /\ text = [r \in Readers |-> <<>>]
    /\ pat_index = [r \in Readers |-> 0]
    /\ resp = [r \in Readers |-> NoResponse]
    /\ calls = 0
    /\ call = [p \in Procs |-> NoCall]
    /\ seen = [r \in Readers |-> NoSeen]
    /\ pub = [lit |-> None, rx |-> None, rx_ids |-> <<>>]

\* The rows of regex_rules with ids 1..n.
RegexRow(i, pattern, description, action) ==
    [id |-> i, pattern |-> pattern, description |-> description,
     moderation_action |-> action]

\* The stores the service starts from.
InitBadWordTables ==
    {<<[word |-> <<"a", "b">>, moderation_action |-> "NEEDS_REVIEW"],
       [word |-> <<"A", "B">>, moderation_action |-> "REJECTED"]>>}
InitRegexTables ==
    {<<RegexRow(1, <<"b", ".">>, None, "APPROVED")>>,
     <<RegexRow(1, <<"b", ".">>, None, "APPROVED"),
       RegexRow(2, <<"(">>, None, "REJECTED")>>}
InitSettingTables == {<<[key |-> <<"k", "1">>, value |-> "v0"]>>}

Init == InitWith(InitBadWordTables, InitRegexTables, InitSettingTables)

Load(p) ==
    \/ FetchBadWords(p) \/ LbwInvalidate(p) \/ LbwInsert(p) \/ LbwPublish(p)
    \/ FetchRegex(p) \/ LrrInvalidate(p) \/ LrrInsert(p) \/ LrrBuild(p)
    \/ LrrPublish(p)
    \/ FetchSettings(p) \/ LsInvalidate(p) \/ LsInsert(p)

Handle(p) ==
    \/ \E in \in BadWordInputs : AddBadword(p, in[1], in[2])
    \/ \E word \in WordInputs : DeleteBadword(p, word)
    \/ \E in \in RegexInputs : AddRegex(p, in[1], in[2], in[3])
    \/ \E id \in 1..(regex_id_seq + 1) : DeleteRegex(p, id)
    \/ \E in \in SettingInputs : InsertSetting(p, in[1], in[2])
    \/ Return(p)

Moderate(r, contents) ==
    \/ \E content \in contents : ApiModerate(r, content)
    \/ LitFind(r) \/ LitRead(r) \/ RxLock(r) \/ RxMatch(r) \/ RxRead(r)
    \/ ModerateReturn(r)

Next ==
    \/ \E p \in Procs : Load(p)
    \/ \E p \in Handlers : Handle(p)
    \/ \E r \in Readers : Moderate(r, ContentInputs)

Spec == Init /\ [][Next]_vars

(***************************************************************************)
(* The decision procedure on its own: the service started on any store of  *)
(* up to MaxInitRows rules of each kind, and serving /moderate requests    *)
(* with no administrative request.                                         *)
(***************************************************************************)
MaxInitRows == 2

\* Sequences of up to MaxInitRows distinct elements of S.
SeqsOf(S) ==
    UNION {{q \in [1..n -> S] : \A i, j \in 1..n : i # j => q[i] # q[j]} :
              n \in 0..MaxInitRows}

DecideBadWordRows ==
    {[word |-> <<"a", "b", "c">>, moderation_action |-> "REJECTED"],
     [word |-> <<"a", "b">>, moderation_action |-> "NEEDS_REVIEW"],
     [word |-> <<"b", "c">>, moderation_action |-> "APPROVED"],
     [word |-> <<"A", "B">>, moderation_action |-> "REJECTED"]}
DecideRegexRules ==
    {<<(<<"a">>), Some(<<"d", "1">>), "NEEDS_REVIEW">>,
     <<(<<"b">>), None, "APPROVED">>,
     <<(<<"c", ".">>), Some(<<"d", "2">>), "REJECTED">>,
     <<(<<"(">>), None, "REJECTED">>}
DecideBadWordTables == SeqsOf(DecideBadWordRows)
DecideRegexTables ==
    {[i \in 1..Len(q) |-> RegexRow(i, q[i][1], q[i][2], q[i][3])] :
        q \in SeqsOf(DecideRegexRules)}
DecideContentInputs ==
    {<<"x", "A", "B", "c", "x">>, <<"a", "b", "c">>, <<"x", "b">>, <<>>}

InitDecide ==
    InitWith(DecideBadWordTables, DecideRegexTables, InitSettingTables)

NextDecide ==
    \/ Load("main")
    \/ \E r \in Readers : Moderate(r, DecideContentInputs)

SpecDecide == InitDecide /\ [][NextDecide]_vars

(***************************************************************************)
(* moderate_comment as one evaluation on given values of the two published *)
(* slots.                                                                  *)
(***************************************************************************)
moderate_comment(lit, rx, t) ==
    LET mat == IF lit = None THEN None ELSE AcFind(Unwrap(lit).ac, t)
        matches == IF rx = None THEN {} ELSE SetMatches(Unwrap(rx).set, t)
    IN  IF mat # None
        THEN [status |-> Unwrap(lit).actions[Unwrap(mat)],
              reason |-> Some(LiteralReason(Unwrap(lit).words[Unwrap(mat)]))]
        ELSE IF matches # {}
        THEN [status |-> Unwrap(rx).actions[SetMin(matches)],
              reason |-> Some(Unwrap(rx).descriptions[SetMin(matches)])]
        ELSE [status |-> "APPROVED", reason |-> None]

\* A request that passed validation and has its response.
Decided(r) == rpc[r] = "done" /\ resp[r].status # "Validation"

\* The response of r reports a literal match / a regex match.
IsPrefix(a, b) == Len(a) <= Len(b) /\ SubSeq(b, 1, Len(a)) = a
LiteralResponse(r) ==
    /\ Decided(r)
    /\ resp[r].reason # None
    /\ IsPrefix(LiteralPrefix, Unwrap(resp[r].reason))
RegexResponse(r) ==
    Decided(r) /\ resp[r].reason # None /\ ~LiteralResponse(r)

(***************************************************************************)
(* C1.  Every decide call answers from one complete published bundle of    *)
(* each kind: its response is what moderate_comment gives on the literal   *)
(* bundle and the regex bundle that were published when it took their read *)
(* locks, whatever reloads run before, during or after it; the action and  *)
(* the word or description it returns belong to one rule of that bundle.   *)
(***************************************************************************)
C1_DecideSeesOneBundle ==
    \A r \in Readers :
        Decided(r) =>
            /\ resp[r] = moderate_comment(seen[r].lit, seen[r].rx, text[r])
            /\ LiteralResponse(r) =>
                  \E i \in 1..Len(Unwrap(seen[r].lit).words) :
                      /\ resp[r].status = Unwrap(seen[r].lit).actions[i]
                      /\ Unwrap(resp[r].reason) =
                            LiteralPrefix \o Unwrap(seen[r].lit).words[i]
                      /\ Starts(Unwrap(seen[r].lit).ac[i], text[r]) # {}
            /\ RegexResponse(r) =>
                  \E i \in 1..Len(Unwrap(seen[r].rx).set) :
                      /\ resp[r].status = Unwrap(seen[r].rx).actions[i]
                      /\ Unwrap(resp[r].reason) = Unwrap(seen[r].rx).descriptions[i]
                      /\ IsMatch(Unwrap(seen[r].rx).set[i], text[r])

\* A decide call answered with a literal match from the bundle it locked
\* while a reload of the literal words, started meanwhile, waits to publish a
\* different bundle.
C1_Witness ==
    \E r \in Readers, p \in Handlers :
        /\ LiteralResponse(r)
        /\ pc[p] = "lbw_publish"
        /\ built[p] # seen[r].lit

(***************************************************************************)
(* C2.  A text that contains a word of the published literal bundle and    *)
(* also matches a rule of the published regex bundle is decided by the     *)
(* literal rule: the response carries the action and the word of a literal *)
(* rule whose word occurs in the text.                                     *)
(***************************************************************************)
ContainsLiteral(t) ==
    /\ bad_words_matcher # None
    /\ \E i \in 1..Len(Unwrap(bad_words_matcher).words) :
          Starts(Unwrap(bad_words_matcher).words[i], t) # {}
MatchesRegex(t) ==
    /\ regex_set_bundle # None
    /\ \E i \in 1..Len(Unwrap(regex_set_bundle).set) :
          IsMatch(Unwrap(regex_set_bundle).set[i], t)

C2_LiteralHasPriority ==
    \A r \in Readers :
        (Decided(r) /\ ContainsLiteral(text[r]) /\ MatchesRegex(text[r])) =>
            /\ LiteralResponse(r)
            /\ \E i \in 1..Len(Unwrap(bad_words_matcher).words) :
                  /\ Starts(Unwrap(bad_words_matcher).words[i], text[r]) # {}
                  /\ resp[r].status = Unwrap(bad_words_matcher).actions[i]
                  /\ Unwrap(resp[r].reason) =
                        LiteralPrefix \o Unwrap(bad_words_matcher).words[i]

C2_Witness ==
    \E r \in Readers :
        Decided(r) /\ ContainsLiteral(text[r]) /\ MatchesRegex(text[r])

(***************************************************************************)
(* C3.  After a reload of the regex rules with rows in ascending id order, *)
(* position i of the published regex bundle holds the rule with the i-th   *)
(* smallest id, and when several regex rules match a text (and no literal  *)
(* does) the response is the action and description of the matching rule   *)
(* with the lowest id.                                                      *)
(***************************************************************************)
\* The rows of the reload that published the regex bundle, and the one of
\* lowest id among those that match t.
PublishedRegexRows == Unwrap(pub.rx)
LowestIdMatch(t) ==
    LET rs == PublishedRegexRows
        m == {i \in 1..Len(rs) : IsMatch(rs[i].re, t)}
    IN  rs[CHOOSE i \in m : \A j \in m : rs[i].id <= rs[j].id]

C3_LowestIdWins ==
    /\ regex_set_bundle # None =>
          \A i, j \in 1..Len(pub.rx_ids) :
              i < j => pub.rx_ids[i] < pub.rx_ids[j]
    /\ \A r \in Readers :
          (RegexResponse(r) /\ seen[r].rx = regex_set_bundle
              /\ Cardinality(SetMatches(Unwrap(regex_set_bundle).set, text[r])) >= 2) =>
              /\ resp[r].status = LowestIdMatch(text[r]).action
              /\ Unwrap(resp[r].reason) = LowestIdMatch(text[r]).desc

C5_FailedBuildPublishesNothing ==
    [][\A p \in Procs :
          (outcome'[p] = "Panic" /\ outcome[p] # "Panic") =>
              /\ pc'[p] = PanicPc(p)
              /\ bad_words_matcher' = bad_words_matcher
              /\ regex_set_bundle' = regex_set_bundle
              /\ call'[p].published = call[p].published
              /\ p \in Handlers => ~call'[p].published]_vars

\* A handler whose RegexSet build failed while a regex bundle is published,
\* and one whose automaton build failed while a literal bundle is published.
C5_Witness ==
    \E p \in Handlers :
        /\ pc[p] = "done" /\ outcome[p] = "Panic"
        /\ call[p].kind = "rx" /\ call[p].loaded # None
        /\ regex_set_bundle # None

C5_WitnessLiteral ==
    \E p \in Handlers :
        /\ pc[p] = "done" /\ outcome[p] = "Panic"
        /\ call[p].kind = "lit" /\ call[p].loaded # None
        /\ bad_words_matcher # None

(***************************************************************************)
(* C6.  As claimed: a reload that has reached its publish step can always  *)
(* complete it, also while decide calls are in the middle of matching      *)
(* against the old bundle.                                                 *)
(***************************************************************************)
C6_PublishNeverWaits ==
    \A p \in Procs :
        /\ pc[p] = "lbw_publish" => ENABLED LbwPublish(p)
        /\ pc[p] = "lrr_publish" => ENABLED LrrPublish(p)

(***************************************************************************)
(* C7.  As claimed: when the last completed reload of a kind was given no  *)
(* rows, the slot of that kind is None.                                    *)
(***************************************************************************)
C7_EmptyRowSetPublishesNothing ==
    /\ pub.lit = Some(<<>>) => bad_words_matcher = None
    /\ pub.rx = Some(<<>>) => regex_set_bundle = None

(***************************************************************************)
(* C8.  As claimed: a published bundle holds exactly the rules of the row  *)
(* set of the reload call that published it.                               *)
(***************************************************************************)
C8_BundleBuiltFromOwnRows ==
    /\ pub.lit # None =>
          bad_words_matcher =
              IF Unwrap(pub.lit) = <<>> THEN None
              ELSE Some(BadWordsMatcherOf(Unwrap(pub.lit)))
    /\ pub.rx # None =>
          LET rs == Unwrap(pub.rx)
          IN  /\ {pub.rx_ids[i] : i \in 1..Len(pub.rx_ids)}
                    = {rs[i].id : i \in 1..Len(rs)}
              /\ Len(pub.rx_ids) = Len(rs)
              /\ (regex_set_bundle = None) = (rs = <<>>)
              /\ \A i \in 1..Len(pub.rx_ids) :
                    \E j \in 1..Len(rs) :
                        /\ rs[j].id = pub.rx_ids[i]
                        /\ Unwrap(regex_set_bundle).set[i] = rs[j].re
                        /\ Unwrap(regex_set_bundle).descriptions[i] = rs[j].desc
                        /\ Unwrap(regex_set_bundle).actions[i] = rs[j].action

(***************************************************************************)
(* C9.  A delete of a word or of a regex id that the store does not hold   *)
(* returns NotFound at once: the step leaves the store, the raw caches and *)
(* both published bundles as they were, and the call ends without fetching *)
(* rows or calling a load_* function.                                      *)
(***************************************************************************)
C9_NotFoundReloadsNothing ==
    /\ [][\A p \in Handlers :
            (outcome'[p] = "NotFound" /\ outcome[p] # "NotFound") =>
                /\ pc'[p] = "done"
                /\ UNCHANGED <<store_vars, cache_vars, bundle_vars>>]_vars
    /\ [](\A p \in Handlers :
            outcome[p] = "NotFound" =>
                /\ pc[p] = "done"
                /\ call[p].fetched = None /\ call[p].loaded = None
                /\ ~call[p].published)

\* A delete answered NotFound while bundles of both kinds are published.
C9_Witness ==
    \E p \in Handlers :
        /\ outcome[p] = "NotFound"
        /\ bad_words_matcher # None /\ regex_set_bundle # None

(***************************************************************************)
(* C10.  A handler that changed the store and answers Ok has, after that   *)
(* write, fetched the full table of the kind it changed and called the     *)
(* load_* function of that kind with exactly those rows.                   *)
(***************************************************************************)
\* The rows a load_* call is given for a fetched table.
ArgsOf(kind, tbl) ==
    CASE kind = "lit" ->
            [i \in 1..Len(tbl) |->
                [word |-> tbl[i].word, action |-> tbl[i].moderation_action]]
      [] kind = "rx" ->
            [i \in 1..Len(tbl) |->
                [id |-> tbl[i].id, re |-> tbl[i].pattern,
                 desc |-> IF tbl[i].description = None THEN DefaultDescription
                          ELSE tbl[i].description[1],
                 action |-> tbl[i].moderation_action]]
      [] OTHER -> tbl

C10_MutationThenReload ==
    \A p \in Handlers :
        (pc[p] = "done" /\ outcome[p] = "Ok" /\ call[p].wrote) =>
            /\ call[p].fetched # None
            /\ call[p].loaded =
                  Some(<<call[p].kind,
                         ArgsOf(call[p].kind, Unwrap(call[p].fetched))>>)

\* A handler that added a regex rule answers Ok after a reload of two rules.
C10_Witness ==
    \E p \in Handlers :
        /\ pc[p] = "done" /\ outcome[p] = "Ok" /\ call[p].wrote
        /\ call[p].kind = "rx" /\ Len(rows[p]) >= 2

(***************************************************************************)
(* C11.  No /moderate request is in progress or answered unless main has   *)
(* reached axum::serve, and the step in which main reaches it is the       *)
(* return of load_settings, taken after load_bad_words and                 *)
(* load_regex_rules have published: at that step the two published slots  *)
(* and the settings cache hold what the three tables of the store hold.    *)
(***************************************************************************)
\* The settings cache that holds the rows of a table.
SettingsOf(tbl) ==
    [k \in {tbl[i].key : i \in 1..Len(tbl)} |->
        tbl[CHOOSE i \in 1..Len(tbl) : tbl[i].key = k].value]

C11_LoadsBeforeTraffic ==
    /\ [](\A r \in Readers :
             (rpc[r] # "idle" \/ resp[r] # NoResponse) => Serving)
    /\ [][(~Serving /\ Serving') =>
             /\ pc["main"] \in {"ls_invalidate", "ls_loop"}
             /\ pub.lit = Some(ArgsOf("lit", tbl_bad_words))
             /\ pub.rx = Some(ArgsOf("rx", tbl_regex_rules))
             /\ bad_words_matcher' =
                   IF tbl_bad_words = <<>> THEN None
                   ELSE Some(BadWordsMatcherOf(ArgsOf("lit", tbl_bad_words)))
             /\ (regex_set_bundle' = None) = (tbl_regex_rules = <<>>)
             /\ DOMAIN settings' = DOMAIN SettingsOf(tbl_settings)
             /\ \A k \in DOMAIN settings' :
                   settings'[k] = SettingsOf(tbl_settings)[k]
          ]_vars

\* A /moderate request answered by the freshly started service, before any
\* administrative request.
C11_Witness ==
    \E r \in Readers : Decided(r) /\ calls = 0 /\ resp[r].reason # None

(***************************************************************************)
(* C12.  When load_bad_words publishes for a row set equal to the row set  *)
(* of the load_bad_words call that published last, the decide result on    *)
(* the bundles after the step equals the decide result on the bundles      *)
(* before it, for every text.                                              *)
(***************************************************************************)
\* The texts decide is compared on: the lower-cased contents of the requests.
DecideTexts ==
    {to_lowercase(c) : c \in ContentInputs \cup DecideContentInputs}
       \cup {<<"a", "b">>, <<"b", "c">>, <<"c", "a", "b">>}

C12_ReloadLiteralsIdempotent ==
    [][\A p \in Procs :
          (pc[p] = "lbw_publish" /\ pc'[p] # "lbw_publish"
              /\ pub.lit = Some(rows[p])) =>
              \A t \in DecideTexts :
                  moderate_comment(bad_words_matcher', regex_set_bundle', t)
                      = moderate_comment(bad_words_matcher, regex_set_bundle, t)
      ]_vars

\* add_badword of a word the store holds already has reloaded the rows the
\* startup load published, and a bundle is published.
C12_Witness ==
    \E p \in Handlers :
        /\ pc[p] = "done" /\ outcome[p] = "Ok" /\ calls = 1
        /\ call[p].kind = "lit" /\ call[p].published /\ ~call[p].wrote
        /\ pub.lit = Some(rows[p])
        /\ bad_words_matcher # None

(***************************************************************************)
(* C13.  Every /moderate request that passed validation is answered with a *)
(* status that is one of APPROVED, REJECTED, NEEDS_REVIEW: never with a    *)
(* panic of an index past the end of a metadata vector, whatever bundles   *)
(* are published or absent and whatever reloads are running or have        *)
(* failed; and no task ever ends while it holds a lock (no lock is         *)
(* poisoned): the guards out are those of requests in progress.            *)
(***************************************************************************)
C13_DecideNeverFails ==
    /\ \A r \in Readers :
          /\ Decided(r) =>
                /\ resp[r].status \in Actions
                /\ resp[r] # PanicResponse
          /\ rpc[r] \in {"idle", "done"} =>
                r \notin bw_read_guards \cup rx_read_guards
    /\ bw_read_guards \cup rx_read_guards \subseteq Readers

\* A request answered from the regex stage while a handler's reload has
\* failed.
C13_Witness ==
    \E r \in Readers, p \in Handlers :
        /\ RegexResponse(r)
        /\ outcome[p] = "Panic"

(***************************************************************************)
(* C14.  Each published bundle is consistent in itself.  The literal       *)
(* bundle has as many words and actions as patterns, and pattern i, word i *)
(* and action i are those of row i of the call that published it.  The     *)
(* regex bundle has as many descriptions and actions as patterns, and      *)
(* pattern i, description i and action i are those of one regex rule.  A   *)
(* published slot changes only in a publish step of a load, which stores   *)
(* the whole bundle that load built.                                       *)
(***************************************************************************)
\* Every regex rule a run can hold, as (pattern, description, action).
AllRegexRules ==
    UNION {{<<tbl[i].re, tbl[i].desc, tbl[i].action>> : i \in 1..Len(tbl)} :
              tbl \in {ArgsOf("rx", t) :
                          t \in InitRegexTables \cup DecideRegexTables}}
      \cup {<<in[1], IF in[2] = None THEN DefaultDescription ELSE Unwrap(in[2]),
              in[3]>> : in \in RegexInputs}

C14_BundlesConsistent ==
    /\ [](bad_words_matcher # None =>
             LET b == Unwrap(bad_words_matcher)
                 rs == Unwrap(pub.lit)
             IN  /\ pub.lit # None
                 /\ Len(b.ac) = Len(rs) /\ Len(b.words) = Len(rs)
                 /\ Len(b.actions) = Len(rs)
                 /\ \A i \in 1..Len(rs) :
                       /\ b.ac[i] = to_lowercase(rs[i].word)
                       /\ b.words[i] = to_lowercase(rs[i].word)
                       /\ b.actions[i] = rs[i].action)
    /\ [](regex_set_bundle # None =>
             LET b == Unwrap(regex_set_bundle)
             IN  /\ Len(b.descriptions) = Len(b.set)
                 /\ Len(b.actions) = Len(b.set)
                 /\ \A i \in 1..Len(b.set) :
                       <<b.set[i], b.descriptions[i], b.actions[i]>>
                           \in AllRegexRules)
    /\ [][/\ bad_words_matcher' # bad_words_matcher =>
                \E p \in Procs : /\ pc[p] = "lbw_publish"
                                 /\ pc'[p] # "lbw_publish"
                                 /\ bad_words_matcher' = built[p]
          /\ regex_set_bundle' # regex_set_bundle =>
                \E p \in Procs : /\ pc[p] = "lrr_publish"
                                 /\ pc'[p] # "lrr_publish"
                                 /\ regex_set_bundle' = built[p]]_vars

\* Both slots hold bundles of two rules, the regex bundle one published by a
\* handler.
C14_Witness ==
    /\ bad_words_matcher # None /\ regex_set_bundle # None
    /\ Len(Unwrap(bad_words_matcher).words) >= 2
    /\ Len(Unwrap(regex_set_bundle).set) >= 2
    /\ \E p \in Handlers : call[p].kind = "rx" /\ call[p].published

(***************************************************************************)
(* C15.  As claimed: a request whose text holds a literal match at pattern *)
(* index p of the bundle it locked is answered with the action of rule p   *)
(* and with the reason "literal match: " followed by the word of rule p.   *)
(***************************************************************************)
\* The prefix of the reason as the claim words it.
ClaimedLiteralPrefix ==
    <<"l", "i", "t", "e", "r", "a", "l", " ", "m", "a", "t", "c", "h", ":",
      " ">>

\* The literal match of the request r in the bundle it locked, or None.
LiteralMatchOf(r) ==
    IF seen[r].lit = None THEN None
    ELSE AcFind(Unwrap(seen[r].lit).ac, text[r])

C15_LiteralMatchReason ==
    \A r \in Readers :
        (Decided(r) /\ LiteralMatchOf(r) # None) =>
            LET p == Unwrap(LiteralMatchOf(r))
                b == Unwrap(seen[r].lit)
            IN  /\ resp[r].status = b.actions[p]
                /\ resp[r].reason = Some(ClaimedLiteralPrefix \o b.words[p])

\* What the code does: the same, with the prefix of the format! string.
C15_LiteralMatchReasonOfCode ==
    \A r \in Readers :
        (Decided(r) /\ LiteralMatchOf(r) # None) =>
            LET p == Unwrap(LiteralMatchOf(r))
                b == Unwrap(seen[r].lit)
            IN  /\ resp[r].status = b.actions[p]
                /\ resp[r].reason = Some(LiteralPrefix \o b.words[p])

(***************************************************************************)
(* C16.  Literal matching ignores letter case on both sides.  With the     *)
(* store's words loaded at startup, a request with content c is answered   *)
(* from the literal stage exactly when some stored word occurs in c up to  *)
(* the case of the letters, and the word it reports is a stored word up to *)
(* the case of the letters that occurs so in c.                            *)
(***************************************************************************)
\* Two characters that are the same letter in either case.
SameLetter(a, b) ==
    \/ a = b
    \/ {a, b} \in {{"a", "A"}, {"b", "B"}, {"c", "C"}, {"x", "X"}}
SameIgnoringCase(u, v) ==
    Len(u) = Len(v) /\ \A k \in 1..Len(u) : SameLetter(u[k], v[k])
OccursIgnoringCase(w, t) ==
    \E s \in 0..(Len(t) - Len(w)) :
        SameIgnoringCase(w, SubSeq(t, s + 1, s + Len(w)))

C16_CaseInsensitiveLiterals ==
    \A r \in Readers :
        Decided(r) =>
            \A c \in DecideContentInputs :
                SameIgnoringCase(c, text[r]) =>
                    LET hits == {i \in 1..Len(tbl_bad_words) :
                                   OccursIgnoringCase(tbl_bad_words[i].word, c)}
                    IN  /\ LiteralResponse(r) <=> hits # {}
                        /\ LiteralResponse(r) =>
                              \E i \in hits :
                                  SameIgnoringCase(
                                      tbl_bad_words[i].word,
                                      SubSeq(Unwrap(resp[r].reason),
                                             Len(LiteralPrefix) + 1,
                                             Len(Unwrap(resp[r].reason))))

\* The only stored word is "AB", and the content "xABcx" got a literal answer.
C16_Witness ==
    \E r \in Readers :
        /\ LiteralResponse(r)
        /\ text[r] = <<"x", "a", "b", "c", "x">>
        /\ Len(tbl_bad_words) = 1
        /\ tbl_bad_words[1].word = <<"A", "B">>

(***************************************************************************)
(* C17.  As claimed: after a load_* call that ran with no other reload at  *)
(* all (a startup load, or the reload of the only handler call so far),    *)
(* the raw cache of its kind holds exactly one entry for each row it was   *)
(* given, rows that share a normalized word included, and nothing else.    *)
(***************************************************************************)
\* The raw cache of a kind holds one entry per row of rs, and only those.
RawCacheHolds(kind, rs) ==
    CASE kind = "lit" ->
            /\ Cardinality(DOMAIN bad_words) = Len(rs)
            /\ DOMAIN bad_words = {to_lowercase(rs[i].word) : i \in 1..Len(rs)}
      [] kind = "rx" ->
            /\ Cardinality(DOMAIN regex_rules) = Len(rs)
            /\ DOMAIN regex_rules = {rs[i].id : i \in 1..Len(rs)}
            /\ \A i \in 1..Len(rs) :
                  regex_rules[rs[i].id] =
                      [re |-> rs[i].re, desc |-> rs[i].desc,
                       action |-> rs[i].action]
      [] kind = "set" ->
            /\ Cardinality(DOMAIN settings) = Len(rs)
            /\ DOMAIN settings = {rs[i].key : i \in 1..Len(rs)}
            /\ \A i \in 1..Len(rs) : settings[rs[i].key] = rs[i].value
      [] OTHER -> TRUE

C17_RawCacheOneEntryPerRow ==
    /\ (Serving /\ calls = 0) =>
          /\ RawCacheHolds("lit", ArgsOf("lit", tbl_bad_words))
          /\ RawCacheHolds("rx", ArgsOf("rx", tbl_regex_rules))
          /\ RawCacheHolds("set", tbl_settings)
    /\ \A p \in Handlers :
          (pc[p] = "done" /\ outcome[p] = "Ok" /\ calls = 1
              /\ call[p].loaded # None) =>
              RawCacheHolds(call[p].kind, rows[p])

(***************************************************************************)
(* C18.  The build of a reload is over before the write lock is asked for. *)
(* The build of the RegexSet can always be taken, also while requests hold *)
(* read guards; the step that ends a build leaves both published slots and *)
(* the guards as they were; and a slot changes only in the publish step of *)
(* a task that holds the finished bundle, which that step stores as it is. *)
(***************************************************************************)
\* The step ends the build of task p: p is at a publish step afterwards.
BuildEnds(p) ==
    \/ pc[p] # "lbw_publish" /\ pc'[p] = "lbw_publish"
    \/ pc[p] # "lrr_publish" /\ pc'[p] = "lrr_publish"

C18_BuildBeforeWriteLock ==
    /\ [](\A p \in Procs :
             (pc[p] = "lrr_loop" /\ idx[p] > Len(rows[p])) =>
                 ENABLED LrrBuild(p))
    /\ [][\A p \in Procs :
             /\ BuildEnds(p) => UNCHANGED <<bundle_vars, guard_vars>>
             /\ (pc[p] = "lbw_publish" /\ pc'[p] # "lbw_publish") =>
                   /\ bad_words_matcher' = built[p]
                   /\ UNCHANGED <<built, regex_set_bundle, guard_vars>>
             /\ (pc[p] = "lrr_publish" /\ pc'[p] # "lrr_publish") =>
                   /\ regex_set_bundle' = built[p]
                   /\ UNCHANGED <<built, bad_words_matcher, guard_vars>>
      ]_vars
    /\ [][UNCHANGED bundle_vars
             \/ \E p \in Procs :
                   pc[p] \in {"lbw_publish", "lrr_publish"} /\ pc'[p] # pc[p]
      ]_vars

\* A task has built its regex bundle and not published it yet, while a
\* request holds the read guard of the regex slot.
C18_Witness ==
    \E p \in Handlers, r \in Readers :
        /\ pc[p] = "lrr_publish" /\ built[p] # None
        /\ r \in rx_read_guards

(***************************************************************************)
(* C19.  A /moderate request changes nothing but itself: every step of it  *)
(* leaves the store, the raw caches and both published slots as they were. *)
(* Its answer is a function of the published bundles and the text: a       *)
(* request answered while the bundles it locked are still the published    *)
(* ones has the answer that moderate_comment gives on the published        *)
(* bundles now, as has every other request with that text.                 *)
(***************************************************************************)
C19_DecideIsPure ==
    /\ [][(rpc' # rpc \/ resp' # resp \/ text' # text
              \/ pat_index' # pat_index) =>
             UNCHANGED <<store_vars, cache_vars, bundle_vars, task_vars>>
      ]_vars
    /\ [](\A r \in Readers :
             (/\ Decided(r)
              /\ seen[r].lit = bad_words_matcher
              /\ LiteralResponse(r) \/ seen[r].rx = regex_set_bundle) =>
                 resp[r] = moderate_comment(bad_words_matcher,
                                            regex_set_bundle, text[r]))

\* A request answered from the literal stage on the published bundle while a
\* reload has emptied the raw cache of the words.
C19_Witness ==
    \E r \in Readers :
        /\ LiteralResponse(r)
        /\ seen[r].lit = bad_words_matcher
        /\ bad_words = EmptyMap
        /\ regex_set_bundle # None

(***************************************************************************)
(* C20.  A reload changes the state of its own kind only.  Every step of a *)
(* load_bad_words call leaves the raw cache of the regex rules, the        *)
(* published regex bundle and the settings cache as they were; every step  *)
(* of a load_regex_rules call leaves the raw cache of the words, the       *)
(* published literal bundle and the settings cache as they were; every     *)
(* step of a load_settings call leaves both raw rule caches and both       *)
(* published bundles as they were, and with them the result of decide on   *)
(* every text.                                                             *)
(***************************************************************************)
\* Task p, at one of the given positions, takes the step.
StepsAt(p, positions) ==
    /\ pc[p] \in positions
    /\ pc'[p] # pc[p] \/ idx'[p] # idx[p] \/ built'[p] # built[p]

C20_ReloadTouchesOwnKindOnly ==
    [][\A p \in Procs :
          /\ StepsAt(p, {"lbw_invalidate", "lbw_loop", "lbw_publish"}) =>
                UNCHANGED <<regex_rules, regex_set_bundle, settings>>
          /\ StepsAt(p, {"lrr_invalidate", "lrr_loop", "lrr_publish"}) =>
                UNCHANGED <<bad_words, bad_words_matcher, settings>>
          /\ StepsAt(p, {"ls_invalidate", "ls_loop"}) =>
                /\ UNCHANGED <<bad_words, regex_rules, bundle_vars>>
                /\ \A t \in DecideTexts :
                      moderate_comment(bad_words_matcher', regex_set_bundle', t)
                          = moderate_comment(bad_words_matcher,
                                             regex_set_bundle, t)
      ]_vars

\* The reload of insert_setting has replaced the value of a setting while
\* bundles of both kinds are published.
C20_Witness ==
    \E p \in Handlers :
        /\ pc[p] = "done" /\ outcome[p] = "Ok" /\ call[p].kind = "set"
        /\ <<"k", "1">> \in DOMAIN settings /\ settings[<<"k", "1">>] = "v1"
        /\ bad_words_matcher # None /\ regex_set_bundle # None

(***************************************************************************)
(* C21.  As claimed, for the literal words: once no handler is in flight,  *)
(* the call that published the literal bundle last is one that fetched the *)
(* rows the store holds now, and the published bundle is the one built     *)
(* from them.  (Stores whose words the automaton cannot be built from are  *)
(* left aside: there the reload fails, which is C5.)                       *)
(***************************************************************************)
\* The service is up and every handler call has returned.
Quiescent ==
    /\ Serving
    /\ \A p \in Handlers : pc[p] \in {"idle", "done"}

C21_LastPublishedIsCurrent ==
    LET current == ArgsOf("lit", tbl_bad_words)
    IN  (Quiescent /\ AcBuildOk(BadWordsMatcherOf(current).words)) =>
            /\ pub.lit = Some(current)
            /\ bad_words_matcher =
                  IF current = <<>> THEN None
                  ELSE Some(BadWordsMatcherOf(current))

====
